---- MODULE Spec2Model ----
(***************************************************************************)
(* State-machine model of the Rawfin API client (src/unnamed/part_000):    *)
(* the request primitive, requestWithRetry, the auth sub-client and the    *)
(* OAuth callback handling executed at page load.                          *)
(*                                                                         *)
(* JavaScript runs one task at a time; an async function runs without      *)
(* interruption from one await to the next.  Every action below is one     *)
(* such uninterrupted run: the synchronous part of a call up to the fetch, *)
(* or the completion of a fetch together with the continuations (catch     *)
(* handlers, .then callbacks) that the resulting promise chain runs in the *)
(* same microtask checkpoint.                                              *)
(***************************************************************************)
EXTENDS Integers, Sequences, FiniteSets, TLC

(***************************************************************************)
(* ClientConfig                                                            *)
(***************************************************************************)
retryAttempts == 3
retryDelay == 1000
timeout == 10000
NavDelay == 3000

(***************************************************************************)
(* Values                                                                  *)
(***************************************************************************)
Undefined == "<undefined>"      \* JavaScript undefined (a missing property)
Null == "<null>"                \* localStorage.getItem on a missing key

\* JSON values a response body or a stored profile can hold.  `token` and
\* `name` are the two properties the client or its callers read.
JObject(tok, name) == [type |-> "object", token |-> tok, name |-> name]
EmptyObj == JObject(Undefined, Undefined)                   \* {}
ObjTok == JObject("t2", "ann")                              \* {token:"t2",name:"ann"}
ObjPlain == JObject(Undefined, "ann")                       \* {name:"ann"}
JNull == [type |-> "null", token |-> Undefined, name |-> Undefined]
JFalse == [type |-> "false", token |-> Undefined, name |-> Undefined]
JUndef == [type |-> "undefined", token |-> Undefined, name |-> Undefined]
\* A body that is not JSON text: response.json() rejects with a SyntaxError.
Invalid == [type |-> "invalid", token |-> Undefined, name |-> Undefined]

Bodies == {ObjTok, ObjPlain, JNull, JFalse, Invalid}
Statuses == {200, 401, 408, 429, 500, 599}
Tokens == {"t1", "t2"}

\* JavaScript truthiness of a string-or-undefined value and of a JSON value.
TruthyStr(s) == s \notin {Undefined, Null, ""}
Truthy(v) == v.type = "object"

\* JSON.stringify / JSON.parse on the values above: the stored text wraps
\* the value; parsing unwraps it.
JSONstringify(v) == [text |-> v]
JSONparse(s) == s.text
NoItem == [text |-> JUndef]     \* the profile slot when the key is missing

(***************************************************************************)
(* Errors                                                                  *)
(***************************************************************************)
\* class APIError extends Error { constructor(message, status, data = {}) }
\* `oid` is the object's identity: who created it, for which request.
APIError(message, status, data, oid) ==
    [name |-> "APIError", message |-> message, status |-> status,
     data |-> data, oid |-> oid]
\* A failure object that is no APIError: it has no status and no data.
RawError(name, message, oid) ==
    [name |-> name, message |-> message, status |-> -1,
     data |-> JUndef, oid |-> oid]
NoError == RawError("<none>", "", <<"none", "none", 0>>)

(***************************************************************************)
(* Headers and options                                                     *)
(***************************************************************************)
\* A headers object, by the three header names the model tells apart.
Headers(ct, auth, custom) ==
    [ContentType |-> ct, Authorization |-> auth, XCustom |-> custom]
NoHeaders == Headers(Undefined, Undefined, Undefined)
\* The headers objects a caller may pass in options.headers.
CallerHeaders ==
    { NoHeaders,
      Headers(Undefined, Undefined, "1"),
      Headers("text/plain", Undefined, Undefined),
      Headers(Undefined, "Bearer mine", "1") }
\* options: `hasHeaders` tells whether the object has a `headers` key.
Options(method, hasHeaders, headers) ==
    [method |-> method, hasHeaders |-> hasHeaders, headers |-> headers]
NoOptions == Options(Undefined, FALSE, NoHeaders)
PostOptions == Options("POST", FALSE, NoHeaders)
CallerOptions ==
    {NoOptions, PostOptions} \cup {Options(Undefined, TRUE, h) : h \in CallerHeaders}

\* { 'Content-Type': 'application/json', ...options.headers }
MergedHeaders(options) ==
    IF options.hasHeaders
    THEN [options.headers EXCEPT
            !.ContentType = IF options.headers.ContentType = Undefined
                            THEN "application/json" ELSE @]
    ELSE Headers("application/json", Undefined, Undefined)

\* config = { method, headers: merged, ...options }: the trailing spread
\* replaces `headers` by options.headers itself whenever options has the key,
\* so config.headers is then the caller's own object.
ConfigHeaders(options) ==
    IF options.hasHeaders THEN options.headers ELSE MergedHeaders(options)
ConfigMethod(options) ==
    IF options.method = Undefined THEN "GET" ELSE options.method

\* if (token) config.headers['Authorization'] = `Bearer ${token}`
WithAuth(headers, tok) ==
    IF TruthyStr(tok) THEN [headers EXCEPT !.Authorization = "Bearer " \o tok]
    ELSE headers

\* The headers fetch() is called with.
SentHeaders(options, tok) == WithAuth(ConfigHeaders(options), tok)

\* The caller's options object after request() has run its synchronous part:
\* the Authorization write lands in options.headers when config.headers is
\* that very object.
OptionsAfterRequest(options, tok) ==
    IF options.hasHeaders
    THEN [options EXCEPT !.headers = SentHeaders(options, tok)]
    ELSE options

(***************************************************************************)
(* State                                                                   *)
(***************************************************************************)
Tasks == {"rw", "lo", "gp", "rt", "lo_gp", "lo_rt"}
LogoutTasks == {"lo", "lo_gp", "lo_rt"}

VARIABLES
    token,      \* localStorage['rawfin_auth_token'] (Null when missing)
    userData,   \* localStorage['rawfin_user_data'] (NoItem when missing)
    location,   \* "here": the loaded page; "/": navigated to the site root
    page,       \* the page load: URL parts and how far the script has run
    pc,         \* per task: "idle", "fetching", "backoff", "resolved", "rejected"
    net,        \* per task: the fetch in flight, or NoReq
    retry,      \* the requestWithRetry call: options object, attempt, history
    event,      \* what the last step delivered to a caller, and what it logged
    now,        \* the time, in ticks, of the page's event loop (core.js utilities)
    throttled,  \* the closure of one throttle(func, limit) wrapper, with its history
    debounced   \* the closure of one debounce(func, wait) wrapper, with its history

vars == <<token, userData, location, page, pc, net, retry, event,
          now, throttled, debounced>>
\* The variables of the core.js utilities, which the API client never touches.
utilVars == <<now, throttled, debounced>>

NoReq == [endpoint |-> "", method |-> "", headers |-> NoHeaders,
          stored |-> Null, n |-> 0, timer |-> 0]

\* The fetch that request(endpoint, options) starts while `tok` is stored.
\* `stored` records getAuthToken()'s answer at that moment; `n` numbers the
\* request within its task; `timer` is the delay of the armed abort timer.
Fetch(endpoint, options, tok, n) ==
    [endpoint |-> endpoint, method |-> ConfigMethod(options),
     headers |-> SentHeaders(options, tok), stored |-> tok, n |-> n,
     timer |-> timeout]

\* `out` is the network outcome whose arrival made the step (NoOut for a
\* step that no fetch completion started).
NoOut == [kind |-> "none", status |-> 0, body |-> JUndef]
NoEvent == [task |-> "none", kind |-> "none", value |-> JUndef,
            error |-> NoError, logs |-> <<>>, out |-> NoOut]
Ev(task, kind, value, error, logs) ==
    [task |-> task, kind |-> kind, value |-> value, error |-> error, logs |-> logs,
     out |-> NoOut]
\* The event of a step made by the arrival of `out`.
EvOf(out, task, kind, value, error, logs) ==
    [Ev(task, kind, value, error, logs) EXCEPT !.out = out]

(***************************************************************************)
(* The request primitive                                                   *)
(***************************************************************************)
\* What the network does to a fetch: an HTTP response, the abort timer
\* firing, a cancellation reported by the transport, or a transport failure.
Response(s, b) == [kind |-> "response", status |-> s, body |-> b]
Failure(k) == [kind |-> k, status |-> 0, body |-> Invalid]
Outcomes ==
    {Response(200, b) : b \in Bodies}
    \cup {Response(s, ObjPlain) : s \in Statuses \ {200}}
    \cup {Response(500, Invalid)}
    \cup {Failure(k) : k \in {"timeout", "abort", "neterr"}}
\* The outcomes tried on POST /auth/logout, whose payload nothing reads.
LogoutOutcomes ==
    {Response(200, ObjPlain), Response(200, Invalid), Response(401, ObjPlain),
     Response(500, Invalid), Failure("timeout"), Failure("neterr")}

ResponseOk(status) == status >= 200 /\ status <= 299

\* The object fetch() itself rejects with; `id` = <<task, n>> is the request.
FetchFailure(id, out) ==
    IF out.kind = "neterr"
    THEN RawError("TypeError", "Failed to fetch", <<"fetch", id[1], id[2]>>)
    ELSE RawError("AbortError", "The operation was aborted", <<"fetch", id[1], id[2]>>)

\* Variant: the body of a non-2xx response is parsed without the .catch, so
\* a body that is not JSON throws its SyntaxError in place of the APIError.
RequestTry_ParseFailureReplaces(id, out) ==
    IF out.kind # "response"
    THEN [ok |-> FALSE, value |-> JUndef, error |-> FetchFailure(id, out)]
    ELSE IF out.body = Invalid
    THEN [ok |-> FALSE, value |-> JUndef,
          error |-> RawError("SyntaxError", "Unexpected token", <<"json", id[1], id[2]>>)]
    ELSE IF ~ResponseOk(out.status)
    THEN [ok |-> FALSE, value |-> JUndef,
          error |-> APIError("API Error: " \o ToString(out.status), out.status,
                             out.body, <<"request", id[1], id[2]>>)]
    ELSE [ok |-> TRUE, value |-> out.body, error |-> NoError]

\* The try block of request(): [ok, value, error], error being what is thrown.
RequestTry(id, out) ==
    IF out.kind # "response"
    THEN [ok |-> FALSE, value |-> JUndef, error |-> FetchFailure(id, out)]
    ELSE IF ~ResponseOk(out.status)
    THEN [ok |-> FALSE, value |-> JUndef,
          error |-> APIError("API Error: " \o ToString(out.status), out.status,
                             IF out.body = Invalid THEN EmptyObj ELSE out.body,
                             <<"request", id[1], id[2]>>)]
    ELSE IF out.body = Invalid
    THEN [ok |-> FALSE, value |-> JUndef,
          error |-> RawError("SyntaxError", "Unexpected token", <<"json", id[1], id[2]>>)]
    ELSE [ok |-> TRUE, value |-> out.body, error |-> NoError]

\* Variant: the catch wraps every failure in an APIError.
RequestCatch_Wraps(id, error) ==
    IF error.name = "AbortError"
    THEN [error |-> APIError("Request timeout", 408, EmptyObj, <<"request", id[1], id[2]>>),
          logs |-> <<>>]
    ELSE [error |-> APIError(error.message, 0, EmptyObj, <<"request", id[1], id[2]>>),
          logs |-> <<"API Request Failed:">>]

\* Variant: the catch rethrows a cancellation like any other failure.
RequestCatch_RawAbort(id, error) ==
    [error |-> error, logs |-> <<"API Request Failed:">>]

\* The catch block of request(): [error, logs], error being what is rethrown.
RequestCatch(id, error) ==
    IF error.name = "AbortError"
    THEN [error |-> APIError("Request timeout", 408, EmptyObj, <<"request", id[1], id[2]>>),
          logs |-> <<>>]
    ELSE [error |-> error, logs |-> <<"API Request Failed:">>]

\* The result of request() for a fetch outcome: [ok, value, error, logs].
RequestResult(id, out) ==
    LET t == RequestTry(id, out)
        c == RequestCatch(id, t.error)
    IN  IF t.ok THEN [ok |-> TRUE, value |-> t.value, error |-> NoError, logs |-> <<>>]
        ELSE [ok |-> FALSE, value |-> JUndef, error |-> c.error, logs |-> c.logs]

(***************************************************************************)
(* requestWithRetry                                                        *)
(***************************************************************************)
IsAPIError(error) == error.name = "APIError"

\* Variant: every 4xx is retried as well.
shouldRetry_Any4xx(error) ==
    IF IsAPIError(error) THEN error.status >= 400 ELSE FALSE

shouldRetry(error) ==
    IF IsAPIError(error) THEN error.status >= 500 \/ error.status = 429
    ELSE FALSE

\* Variant: one attempt too many.
RetryGuard_OffByOne(attempt, error) == attempt <= retryAttempts /\ shouldRetry(error)

\* attempt < this.retryAttempts && this.shouldRetry(error)
RetryGuard(attempt, error) == attempt < retryAttempts /\ shouldRetry(error)

\* Variant: a constant delay.
BackoffDelay_Constant(attempt) == retryDelay

\* Variant: the first retry is not delayed.
BackoffDelay_ZeroBased(attempt) == retryDelay * (attempt - 1)

\* this.retryDelay * attempt
BackoffDelay(attempt) == retryDelay * attempt

\* Variant: giving up wraps the last error in a new one.
Rethrown_Wrapped(attempt, error) ==
    APIError("Request failed", error.status, EmptyObj, <<"retry", "rw", attempt>>)

\* throw error: what requestWithRetry throws when it gives up at `attempt`.
Rethrown(attempt, error) == error

\* The requestWithRetry call: `options` is the caller's options object as it
\* is now, `given` as it was passed; `attempt` the current attempt; `calls`
\* counts the runs of request(); `outs` lists what the network answered to
\* each attempt; `delays` lists the backoff delays waited; `waiting` is the
\* delay of the pending backoff timer.
NoRetry == [options |-> NoOptions, given |-> NoOptions, attempt |-> 0,
            calls |-> 0, delays |-> <<>>, outs |-> <<>>, waiting |-> 0]

Live == location = "here" /\ page.pc = "loaded"

\* requestWithRetry(endpoint, options): attempt 1 starts its fetch.
RetryCall(options) ==
    /\ Live
    /\ pc["rw"] = "idle"
    /\ pc' = [pc EXCEPT !["rw"] = "fetching"]
    /\ net' = [net EXCEPT !["rw"] = Fetch("/episodes/featured", options, token, 1)]
    /\ retry' = [NoRetry EXCEPT !.options = OptionsAfterRequest(options, token),
                                !.given = options, !.attempt = 1, !.calls = 1]
    /\ event' = Ev("rw", "issued", JUndef, NoError, <<>>)
    /\ UNCHANGED <<token, userData, location, page, now, throttled, debounced>>

\* Variant: a 401 answer makes the retry layer drop the stored session.
RetrySettle_ClearsOn401(out) ==
    /\ location = "here"
    /\ pc["rw"] = "fetching"
    /\ LET r == RequestResult(<<"rw", net["rw"].n>>, out)
           retries == ~r.ok /\ RetryGuard(retry.attempt, r.error)
           drop == ~r.ok /\ r.error.status = 401
       IN  /\ net' = [net EXCEPT !["rw"] = NoReq]
           /\ pc' = [pc EXCEPT !["rw"] = IF r.ok THEN "resolved"
                                         ELSE IF retries THEN "backoff" ELSE "rejected"]
           /\ retry' = [retry EXCEPT
                          !.outs = Append(@, out),
                          !.waiting = IF retries THEN BackoffDelay(retry.attempt) ELSE @]
           /\ event' = EvOf(out, "rw",
                            IF r.ok THEN "resolved"
                            ELSE IF retries THEN "retrying" ELSE "rejected",
                            r.value, r.error, r.logs)
           /\ token' = IF drop THEN Null ELSE token
           /\ userData' = IF drop THEN NoItem ELSE userData
    /\ UNCHANGED <<location, page, now, throttled, debounced>>

\* The fetch of the current attempt completes; the catch of requestWithRetry
\* either schedules the backoff timer or rethrows.
RetrySettle(out) ==
    /\ location = "here"
    /\ pc["rw"] = "fetching"
    /\ LET r == RequestResult(<<"rw", net["rw"].n>>, out)
       IN  /\ net' = [net EXCEPT !["rw"] = NoReq]
           /\ IF r.ok
              THEN /\ pc' = [pc EXCEPT !["rw"] = "resolved"]
                   /\ retry' = [retry EXCEPT !.outs = Append(@, out)]
                   /\ event' = EvOf(out, "rw", "resolved", r.value, NoError, r.logs)
              ELSE IF RetryGuard(retry.attempt, r.error)
              THEN /\ pc' = [pc EXCEPT !["rw"] = "backoff"]
                   /\ retry' = [retry EXCEPT
                                  !.outs = Append(@, out),
                                  !.waiting = BackoffDelay(retry.attempt)]
                   /\ event' = EvOf(out, "rw", "retrying", JUndef, r.error,
                                    r.logs \o <<"Retrying request">>)
              ELSE /\ pc' = [pc EXCEPT !["rw"] = "rejected"]
                   /\ retry' = [retry EXCEPT !.outs = Append(@, out)]
                   /\ event' = EvOf(out, "rw", "rejected", JUndef,
                                    Rethrown(retry.attempt, r.error), r.logs)
    /\ UNCHANGED <<token, userData, location, page, now, throttled, debounced>>

\* The backoff timer fires: requestWithRetry(endpoint, options, attempt + 1)
\* runs request() again with the same options object.
RetryBackoffElapsed ==
    /\ location = "here"
    /\ pc["rw"] = "backoff"
    /\ pc' = [pc EXCEPT !["rw"] = "fetching"]
    /\ net' = [net EXCEPT !["rw"] =
                 Fetch("/episodes/featured", retry.options, token, retry.attempt + 1)]
    /\ retry' = [retry EXCEPT
                   !.options = OptionsAfterRequest(retry.options, token),
                   !.attempt = @ + 1, !.calls = @ + 1,
                   !.delays = Append(@, retry.waiting), !.waiting = 0]
    /\ event' = Ev("rw", "issued", JUndef, NoError, <<>>)
    /\ UNCHANGED <<token, userData, location, page, now, throttled, debounced>>

(***************************************************************************)
(* Storage accessors                                                       *)
(***************************************************************************)
\* setAuthToken(token): the new content of the token slot.
SetAuthToken(tok) == IF TruthyStr(tok) THEN tok ELSE Null
\* setUserData(data): the new content of the profile slot.
SetUserData(data) == IF Truthy(data) THEN JSONstringify(data) ELSE NoItem
\* getUserData(): data ? JSON.parse(data) : null
GetUserData(item) == IF item # NoItem THEN JSONparse(item) ELSE JNull
\* isAuthenticated(): !!getAuthToken()
isAuthenticated(tok) == TruthyStr(tok)

(***************************************************************************)
(* Auth sub-client                                                         *)
(***************************************************************************)
\* Variant: logout() forgets the profile slot.
LogoutSync_KeepsProfile(tok, data) ==
    LET t1 == SetAuthToken(Null)
    IN  [token |-> t1, userData |-> data,
         fetch |-> Fetch("/auth/logout", PostOptions, t1, 1)]

\* Variant: logout() starts its request before it clears the slots.
LogoutSync_PostFirst(tok, data) ==
    [token |-> SetAuthToken(Null), userData |-> SetUserData(JNull),
     fetch |-> Fetch("/auth/logout", PostOptions, tok, 1)]

\* The synchronous part of logout(): both slots are written, then request()
\* runs up to its fetch.
LogoutSync(tok, data) ==
    LET t1 == SetAuthToken(Null)
        d1 == SetUserData(JNull)
    IN  [token |-> t1, userData |-> d1,
         fetch |-> Fetch("/auth/logout", PostOptions, t1, 1)]

\* Variant: logout() logs the failure of its request and rethrows it.
LogoutResult_Rethrows(r) ==
    IF r.ok THEN [kind |-> "resolved", value |-> r.value, error |-> NoError,
                  logs |-> r.logs]
    ELSE [kind |-> "rejected", value |-> JUndef, error |-> r.error,
          logs |-> r.logs \o <<"Logout API error:">>]

\* How logout() settles for a result r of its request().
LogoutResult(r) ==
    IF r.ok THEN [kind |-> "resolved", value |-> r.value, error |-> NoError,
                  logs |-> r.logs]
    ELSE [kind |-> "resolved", value |-> JUndef, error |-> NoError,
          logs |-> r.logs \o <<"Logout API error:">>]

\* logout() called by a caller of the client.
Logout ==
    /\ Live
    /\ pc["lo"] = "idle"
    /\ LET s == LogoutSync(token, userData)
       IN  /\ token' = s.token
           /\ userData' = s.userData
           /\ net' = [net EXCEPT !["lo"] = s.fetch]
    /\ pc' = [pc EXCEPT !["lo"] = "fetching"]
    /\ event' = Ev("lo", "issued", JUndef, NoError, <<>>)
    /\ UNCHANGED <<location, page, retry, now, throttled, debounced>>

\* The POST /auth/logout of a logout() completes (t: which logout call).
LogoutSettle(t, out) ==
    /\ location = "here"
    /\ t \in LogoutTasks
    /\ pc[t] = "fetching"
    /\ LET l == LogoutResult(RequestResult(<<t, net[t].n>>, out))
       IN  /\ pc' = [pc EXCEPT ![t] = l.kind]
           /\ event' = EvOf(out, t, l.kind, l.value, l.error, l.logs)
    /\ net' = [net EXCEPT ![t] = NoReq]
    /\ UNCHANGED <<token, userData, location, page, retry, now, throttled, debounced>>

\* The synchronous part of getProfile() / refreshToken().
ProfileFetch(tok) == Fetch("/auth/profile", NoOptions, tok, 1)
RefreshFetch(tok) == Fetch("/auth/refresh", PostOptions, tok, 1)

\* getProfile() called by a caller of the client.
GetProfile ==
    /\ Live
    /\ pc["gp"] = "idle"
    /\ pc' = [pc EXCEPT !["gp"] = "fetching"]
    /\ net' = [net EXCEPT !["gp"] = ProfileFetch(token)]
    /\ event' = Ev("gp", "issued", JUndef, NoError, <<>>)
    /\ UNCHANGED <<token, userData, location, page, retry, now, throttled, debounced>>

\* Variant: the catch of getProfile() rethrows without calling logout().
GetProfileResult_NoLogout(r, tok, data) ==
    IF r.ok
    THEN [ok |-> TRUE, value |-> r.value, error |-> NoError,
          token |-> tok, userData |-> SetUserData(r.value),
          logout |-> FALSE, fetch |-> NoReq]
    ELSE [ok |-> FALSE, value |-> JUndef, error |-> r.error,
          token |-> tok, userData |-> data,
          logout |-> FALSE, fetch |-> NoReq]

\* The continuation of getProfile() for a result r of its request():
\* [ok, value, error, userData] on success, and on failure the catch, which
\* calls logout() (c: the triggered logout call) and rethrows.
GetProfileResult(r, tok, data) ==
    IF r.ok
    THEN [ok |-> TRUE, value |-> r.value, error |-> NoError,
          token |-> tok, userData |-> SetUserData(r.value),
          logout |-> FALSE, fetch |-> NoReq]
    ELSE LET s == LogoutSync(tok, data)
         IN  [ok |-> FALSE, value |-> JUndef, error |-> r.error,
              token |-> s.token, userData |-> s.userData,
              logout |-> TRUE, fetch |-> s.fetch]

\* Variant: refreshToken() returns the payload without storing its token.
RefreshTokenResult_NoStore(r, tok, data) ==
    LET s == LogoutSync(tok, data)
    IN  IF r.ok /\ r.value.type # "null"
        THEN [ok |-> TRUE, value |-> r.value, error |-> NoError,
              token |-> tok, userData |-> data,
              logout |-> FALSE, fetch |-> NoReq]
        ELSE [ok |-> FALSE, value |-> JUndef, error |-> r.error,
              token |-> s.token, userData |-> s.userData,
              logout |-> TRUE, fetch |-> s.fetch]

\* Variant: the catch of refreshToken() awaits logout() and lets the result
\* of that call replace the failure: the session is cleared, the caller gets
\* a new error.
RefreshTokenResult_LogoutError(r, tok, data) ==
    LET s == LogoutSync(tok, data)
    IN  IF r.ok /\ r.value.type # "null"
        THEN [ok |-> TRUE, value |-> r.value, error |-> NoError,
              token |-> SetAuthToken(r.value.token), userData |-> data,
              logout |-> FALSE, fetch |-> NoReq]
        ELSE [ok |-> FALSE, value |-> JUndef,
              error |-> RawError("Error", "Logged out", <<"logout", "lo_rt", 1>>),
              token |-> s.token, userData |-> s.userData,
              logout |-> TRUE, fetch |-> s.fetch]

\* The continuation of refreshToken(): reading data.token of null throws
\* inside the try, so that case too runs the catch.
RefreshTokenResult(r, tok, data) ==
    LET s == LogoutSync(tok, data)
        thrown == IF r.ok
                  THEN RawError("TypeError", "Cannot read properties of null",
                                <<"refreshToken", "rt", 1>>)
                  ELSE r.error
    IN  IF r.ok /\ r.value.type # "null"
        THEN [ok |-> TRUE, value |-> r.value, error |-> NoError,
              token |-> SetAuthToken(r.value.token), userData |-> data,
              logout |-> FALSE, fetch |-> NoReq]
        ELSE [ok |-> FALSE, value |-> JUndef, error |-> thrown,
              token |-> s.token, userData |-> s.userData,
              logout |-> TRUE, fetch |-> s.fetch]

\* Variant: the page navigates once the profile fetch settles, either way.
AfterProfile_Always(ok) ==
    IF page.branch = "token" THEN "/" ELSE location

\* .then(() => { window.location.href = '/' }) of the callback handling.
AfterProfile(ok) ==
    IF page.branch = "token" /\ ok THEN "/" ELSE location

\* GET /auth/profile completes.
GetProfileSettle(out) ==
    /\ location = "here"
    /\ pc["gp"] = "fetching"
    /\ LET r == RequestResult(<<"gp", net["gp"].n>>, out)
           g == GetProfileResult(r, token, userData)
       IN  /\ token' = g.token
           /\ userData' = g.userData
           /\ pc' = [pc EXCEPT !["gp"] = IF g.ok THEN "resolved" ELSE "rejected",
                               !["lo_gp"] = IF g.logout THEN "fetching" ELSE @]
           /\ net' = [net EXCEPT !["gp"] = NoReq, !["lo_gp"] = g.fetch]
           /\ event' = EvOf(out, "gp", IF g.ok THEN "resolved" ELSE "rejected",
                            g.value, g.error, r.logs)
           /\ location' = AfterProfile(g.ok)
    /\ UNCHANGED <<page, retry, now, throttled, debounced>>

\* refreshToken() called by a caller of the client.
RefreshToken ==
    /\ Live
    /\ pc["rt"] = "idle"
    /\ pc' = [pc EXCEPT !["rt"] = "fetching"]
    /\ net' = [net EXCEPT !["rt"] = RefreshFetch(token)]
    /\ event' = Ev("rt", "issued", JUndef, NoError, <<>>)
    /\ UNCHANGED <<token, userData, location, page, retry, now, throttled, debounced>>

\* POST /auth/refresh completes.
RefreshTokenSettle(out) ==
    /\ location = "here"
    /\ pc["rt"] = "fetching"
    /\ LET r == RequestResult(<<"rt", net["rt"].n>>, out)
           g == RefreshTokenResult(r, token, userData)
       IN  /\ token' = g.token
           /\ userData' = g.userData
           /\ pc' = [pc EXCEPT !["rt"] = IF g.ok THEN "resolved" ELSE "rejected",
                               !["lo_rt"] = IF g.logout THEN "fetching" ELSE @]
           /\ net' = [net EXCEPT !["rt"] = NoReq, !["lo_rt"] = g.fetch]
           /\ event' = EvOf(out, "rt", IF g.ok THEN "resolved" ELSE "rejected",
                            g.value, g.error, r.logs)
    /\ UNCHANGED <<location, page, retry, now, throttled, debounced>>

(***************************************************************************)
(* OAuth callback handling at page load                                    *)
(***************************************************************************)
\* The URL the page is loaded at.  params.get() gives Null for a missing
\* parameter.
PageURLs ==
    [callback : BOOLEAN, tokenParam : {Null, "", "abc"}, errorParam : {Null, "", "denied"}]
Page(url, state, branch, notified, navTimer) ==
    [url |-> url, pc |-> state, branch |-> branch, notified |-> notified,
     navTimer |-> navTimer]
PlainURL == [callback |-> FALSE, tokenParam |-> Null, errorParam |-> Null]

\* Variant: the error parameter is looked at first.
CallbackBranch_ErrorFirst(url) ==
    IF ~url.callback THEN "none"
    ELSE IF TruthyStr(url.errorParam) THEN "error"
    ELSE IF TruthyStr(url.tokenParam) THEN "token"
    ELSE "none"

\* Which branch of the callback handling runs for a URL.
CallbackBranch(url) ==
    IF ~url.callback THEN "none"
    ELSE IF TruthyStr(url.tokenParam) THEN "token"
    ELSE IF TruthyStr(url.errorParam) THEN "error"
    ELSE "none"

\* The script runs at page load, on a path without /auth/callback or on a
\* callback URL that carries neither parameter.
PageLoadPlain ==
    /\ page.pc = "loading"
    /\ CallbackBranch(page.url) = "none"
    /\ page' = [page EXCEPT !.pc = "loaded"]
    /\ event' = Ev("page", "loaded", JUndef, NoError, <<"API Client initialized">>)
    /\ UNCHANGED <<token, userData, location, pc, net, retry, now, throttled, debounced>>

\* if (token) { api.setAuthToken(token); api.auth.getProfile().then(...) }
PageLoadToken ==
    /\ page.pc = "loading"
    /\ CallbackBranch(page.url) = "token"
    /\ token' = SetAuthToken(page.url.tokenParam)
    /\ pc' = [pc EXCEPT !["gp"] = "fetching"]
    /\ net' = [net EXCEPT !["gp"] = ProfileFetch(token')]
    /\ page' = [page EXCEPT !.pc = "loaded", !.branch = "token"]
    /\ event' = Ev("page", "loaded", JUndef, NoError, <<"API Client initialized">>)
    /\ UNCHANGED <<userData, location, retry, now, throttled, debounced>>

\* else if (error) { console.error; showNotification; setTimeout(nav, 3000) }
PageLoadError ==
    /\ page.pc = "loading"
    /\ CallbackBranch(page.url) = "error"
    /\ page' = [page EXCEPT !.pc = "loaded", !.branch = "error",
                            !.notified = TRUE, !.navTimer = NavDelay]
    /\ event' = Ev("page", "loaded", JUndef, NoError,
                   <<"Auth error:", "API Client initialized">>)
    /\ UNCHANGED <<token, userData, location, pc, net, retry, now, throttled, debounced>>

\* setTimeout(() => window.location.href = '/', 3000) fires.
NavTimerFires ==
    /\ location = "here"
    /\ page.navTimer > 0
    /\ location' = "/"
    /\ page' = [page EXCEPT !.navTimer = 0]
    /\ event' = Ev("page", "navigated", JUndef, NoError, <<>>)
    /\ UNCHANGED <<token, userData, pc, net, retry, now, throttled, debounced>>

(***************************************************************************)
(* Utilities of core.js: throttle and debounce                             *)
(***************************************************************************)
\* Time is counted in ticks.  A timer set at time t with delay d is due at
\* t + d; the event loop runs a due timer before it takes any other event,
\* so no call and no tick happens while a timer is due.
MaxTime == 6
MaxCalls == 3
Delays == {2, 3}                \* the values of `limit` and `wait`, in ticks
Args == {"a", "b"}              \* the arguments a wrapper is called with
FuncResults == {"returns", "throws"}    \* how an invocation of func ends

Timer(armed, due) == [armed |-> armed, due |-> due]
NoTimer == Timer(FALSE, 0)
IsDue(timer) == timer.armed /\ timer.due <= now

\* One call of a wrapper: when, with what, and whether it invoked func.
Call(at, arg, ran) == [at |-> at, arg |-> arg, ran |-> ran]
\* One invocation of func.
Run(at, arg, result) == [at |-> at, arg |-> arg, result |-> result]

\* throttle(func, limit): `inThrottle` is the closure variable; `timer` the
\* pending setTimeout(() => inThrottle = false, limit).
Throttle(limit) ==
    [limit |-> limit, inThrottle |-> FALSE, timer |-> NoTimer,
     calls |-> <<>>, runs |-> <<>>]
NoThrottle == Throttle(0)

\* The closure after the wrapper is called with `arg` and func, if invoked,
\* ends as `result`: func.apply runs first; `inThrottle = true` and the
\* setTimeout are reached only when it returns.
ThrottledCall(th, arg, result) ==
    IF ~th.inThrottle
    THEN IF result = "returns"
         THEN [th EXCEPT !.inThrottle = TRUE,
                         !.timer = Timer(TRUE, now + th.limit),
                         !.calls = Append(@, Call(now, arg, TRUE)),
                         !.runs = Append(@, Run(now, arg, result))]
         ELSE [th EXCEPT !.calls = Append(@, Call(now, arg, TRUE)),
                         !.runs = Append(@, Run(now, arg, result))]
    ELSE [th EXCEPT !.calls = Append(@, Call(now, arg, FALSE))]

\* The throttled wrapper is called.
ThrottleCall(arg, result) ==
    /\ Len(throttled.calls) < MaxCalls
    /\ ~IsDue(throttled.timer)
    /\ throttled' = ThrottledCall(throttled, arg, result)
    /\ UNCHANGED <<token, userData, location, page, pc, net, retry, event,
                   now, debounced>>

\* () => inThrottle = false
ThrottleTimerFires ==
    /\ IsDue(throttled.timer)
    /\ throttled' = [throttled EXCEPT !.inThrottle = FALSE, !.timer = NoTimer]
    /\ UNCHANGED <<token, userData, location, page, pc, net, retry, event,
                   now, debounced>>

\* Time passes while no timer of the wrapper is due.
ThrottleTick ==
    /\ now < MaxTime
    /\ ~IsDue(throttled.timer)
    /\ now' = now + 1
    /\ UNCHANGED <<token, userData, location, page, pc, net, retry, event,
                   throttled, debounced>>

\* debounce(func, wait): `timeout` is the closure variable, the id of the
\* timer set last (0 while undefined); `timers` are the pending timers, each
\* with the arguments its `later` closure captured.
Debounce(wait) ==
    [wait |-> wait, timeout |-> 0, nextId |-> 1, timers |-> {},
     calls |-> <<>>, runs |-> <<>>]
NoDebounce == Debounce(0)
PendingTimer(id, due, arg) == [id |-> id, due |-> due, arg |-> arg]
DueTimers(db) == {t \in db.timers : t.due <= now}

\* Variant: the pending timer is left in place.
ClearTimeout_Noop(timers, id) == timers

\* clearTimeout(id)
ClearTimeout(timers, id) == {t \in timers : t.id # id}

\* The closure after the wrapper is called with `arg`:
\* clearTimeout(timeout); timeout = setTimeout(later, wait).
DebouncedCall(db, arg) ==
    [db EXCEPT !.timers = ClearTimeout(db.timers, db.timeout)
                            \cup {PendingTimer(db.nextId, now + db.wait, arg)},
               !.timeout = db.nextId,
               !.nextId = @ + 1,
               !.calls = Append(@, Call(now, arg, FALSE))]

\* The debounced wrapper is called.
DebounceCall(arg) ==
    /\ Len(debounced.calls) < MaxCalls
    /\ DueTimers(debounced) = {}
    /\ debounced' = DebouncedCall(debounced, arg)
    /\ UNCHANGED <<token, userData, location, page, pc, net, retry, event,
                   now, throttled>>

\* later(): clearTimeout(timeout); func(...args)
DebounceTimerFires(result) ==
    /\ \E t \in DueTimers(debounced) :
          debounced' = [debounced EXCEPT
                          !.timers = ClearTimeout(@ \ {t}, debounced.timeout),
                          !.runs = Append(@, Run(now, t.arg, result))]
    /\ UNCHANGED <<token, userData, location, page, pc, net, retry, event,
                   now, throttled>>

\* Time passes while no timer of the wrapper is due.
DebounceTick ==
    /\ now < MaxTime
    /\ DueTimers(debounced) = {}
    /\ now' = now + 1
    /\ UNCHANGED <<token, userData, location, page, pc, net, retry, event,
                   throttled, debounced>>

(***************************************************************************)
(* Specifications                                                          *)
(***************************************************************************)
\* What localStorage may hold when the page is loaded.
StoredTokens == {Null} \cup Tokens
StoredProfiles == {NoItem, JSONstringify(ObjPlain)}

InitClient ==
    /\ token \in StoredTokens
    /\ userData \in StoredProfiles
    /\ location = "here"
    /\ pc = [t \in Tasks |-> "idle"]
    /\ net = [t \in Tasks |-> NoReq]
    /\ retry = NoRetry
    /\ event = NoEvent
    /\ now = 0
    /\ throttled = NoThrottle
    /\ debounced = NoDebounce

\* The auth state machine, from the page load on.
Init ==
    /\ InitClient
    /\ page \in {Page(u, "loading", "none", FALSE, 0) : u \in PageURLs}

Next ==
    \/ PageLoadPlain
    \/ PageLoadToken
    \/ PageLoadError
    \/ NavTimerFires
    \/ Logout
    \/ GetProfile
    \/ RefreshToken
    \/ \E out \in Outcomes : GetProfileSettle(out)
    \/ \E out \in Outcomes : RefreshTokenSettle(out)
    \/ \E t \in LogoutTasks, out \in LogoutOutcomes : LogoutSettle(t, out)

Spec == Init /\ [][Next]_vars

\* One requestWithRetry call on a loaded page, with a logout() call running
\* beside it.
InitRetry ==
    /\ InitClient
    /\ page = Page(PlainURL, "loaded", "none", FALSE, 0)

NextRetry ==
    \/ \E o \in CallerOptions : RetryCall(o)
    \/ \E out \in Outcomes : RetrySettle(out)
    \/ RetryBackoffElapsed
    \/ Logout
    \/ \E out \in LogoutOutcomes : LogoutSettle("lo", out)

SpecRetry == InitRetry /\ [][NextRetry]_vars

\* An idle page: no client operation is under way.
InitIdle ==
    /\ token = Null
    /\ userData = NoItem
    /\ location = "here"
    /\ page = Page(PlainURL, "loaded", "none", FALSE, 0)
    /\ pc = [t \in Tasks |-> "idle"]
    /\ net = [t \in Tasks |-> NoReq]
    /\ retry = NoRetry
    /\ event = NoEvent
    /\ now = 0

\* One throttled wrapper on an idle page.
InitThrottle ==
    /\ InitIdle
    /\ throttled \in {Throttle(limit) : limit \in Delays}
    /\ debounced = NoDebounce

NextThrottle ==
    \/ \E arg \in Args, result \in FuncResults : ThrottleCall(arg, result)
    \/ ThrottleTimerFires
    \/ ThrottleTick

SpecThrottle == InitThrottle /\ [][NextThrottle]_vars

\* One debounced wrapper on an idle page.
InitDebounce ==
    /\ InitIdle
    /\ throttled = NoThrottle
    /\ debounced \in {Debounce(wait) : wait \in Delays}

NextDebounce ==
    \/ \E arg \in Args : DebounceCall(arg)
    \/ \E result \in FuncResults : DebounceTimerFires(result)
    \/ DebounceTick

SpecDebounce == InitDebounce /\ [][NextDebounce]_vars

(***************************************************************************)
(* Properties of requestWithRetry (checked under SpecRetry)                *)
(***************************************************************************)
\* Network answers, as the claims classify them.
IsRetryableAnswer(out) ==
    out.kind = "response" /\ ((out.status >= 500 /\ out.status <= 599) \/ out.status = 429)
IsTimeoutOr4xxAnswer(out) ==
    \/ out.kind \in {"timeout", "abort"}
    \/ out.kind = "response" /\ out.status >= 400 /\ out.status <= 499 /\ out.status # 429
IsTransportFailure(out) == out.kind = "neterr"
IsUnparsable2xx(out) ==
    out.kind = "response" /\ ResponseOk(out.status) /\ out.body = Invalid
IsPayloadAnswer(out) ==
    out.kind = "response" /\ ResponseOk(out.status) /\ out.body # Invalid
\* The status request() reports for an answer that is a timeout or a 4xx.
ReportedStatus(out) == IF out.kind = "response" THEN out.status ELSE 408
\* 1x, 2x, ..., nx the base delay.
LinearDelays(n) == [k \in 1..n |-> retryDelay * k]
Last(seq) == seq[Len(seq)]

\* C1: when every attempt of a requestWithRetry call is answered with a
\* status in 500..599 or 429, the call ends after exactly maxRetries runs of
\* request(), the delay waited before attempt k+1 is baseDelay * k, and no
\* call ever makes more than maxRetries attempts.
C1_RetryableExhaustsAttempts ==
    /\ retry.calls <= retryAttempts
    /\ (\A i \in DOMAIN retry.outs : IsRetryableAnswer(retry.outs[i])) =>
          /\ retry.delays = LinearDelays(Len(retry.delays))
          /\ pc["rw"] = "backoff" => retry.waiting = retryDelay * retry.calls
          /\ pc["rw"] = "rejected" =>
                /\ retry.calls = retryAttempts
                /\ Len(retry.outs) = retryAttempts
                /\ retry.delays = LinearDelays(retryAttempts - 1)
          /\ Len(retry.outs) = retryAttempts => pc["rw"] = "rejected"
          /\ pc["rw"] # "resolved"

C1_Witness ==
    /\ pc["rw"] = "rejected"
    /\ Len(retry.outs) = 3
    /\ \A i \in 1..3 : IsRetryableAnswer(retry.outs[i])
    /\ retry.outs[1].status = 429 /\ retry.outs[3].status = 599

\* C2: when the first attempt is answered with a timeout (408) or a 4xx
\* other than 429, request() runs exactly once, no backoff delay is waited,
\* and the caller receives an APIError with that status.
C2_NoRetryOn4xx ==
    (Len(retry.outs) >= 1 /\ IsTimeoutOr4xxAnswer(retry.outs[1])) =>
        /\ pc["rw"] = "rejected"
        /\ retry.calls = 1
        /\ Len(retry.outs) = 1
        /\ retry.delays = <<>>
        /\ retry.waiting = 0
        /\ event.task = "rw" =>
              /\ event.kind = "rejected"
              /\ IsAPIError(event.error)
              /\ event.error.status = ReportedStatus(retry.outs[1])

C2_Witness ==
    /\ pc["rw"] = "rejected"
    /\ event.task = "rw"
    /\ retry.outs[1].kind = "response"
    /\ retry.outs[1].status = 401
    /\ event.error.status = 401

\* C3: when an attempt fails with a failure that is no APIError (the
\* transport's own failure object, or the SyntaxError of a 2xx body that is
\* not JSON), that attempt is the last one, and the caller receives that
\* very object, not an APIError.
C3_TransportFailureUnwrapped ==
    \A i \in DOMAIN retry.outs :
        (IsTransportFailure(retry.outs[i]) \/ IsUnparsable2xx(retry.outs[i])) =>
            /\ i = Len(retry.outs)
            /\ retry.calls = i
            /\ pc["rw"] = "rejected"
            /\ retry.waiting = 0
            /\ event.task = "rw" =>
                  /\ event.kind = "rejected"
                  /\ ~IsAPIError(event.error)
                  /\ IsTransportFailure(retry.outs[i]) =>
                        event.error = FetchFailure(<<"rw", i>>, retry.outs[i])
                  /\ IsUnparsable2xx(retry.outs[i]) =>
                        /\ event.error.name = "SyntaxError"
                        /\ event.error.oid = <<"json", "rw", i>>

C3_Witness ==
    /\ pc["rw"] = "rejected"
    /\ event.task = "rw"
    /\ Len(retry.outs) = 1
    /\ IsTransportFailure(retry.outs[1])
    /\ event.error.name = "TypeError"

\* C4: when attempts 1..k-1 are answered with retryable statuses and attempt
\* k <= maxRetries with a 2xx response whose body parses, the caller receives
\* the payload of attempt k and no error, exactly k attempts were made, and
\* the k-1 delays waited were 1x, 2x, ..., (k-1)x the base delay, in order.
C4_SuccessAfterRetries ==
    (Len(retry.outs) >= 1 /\ IsPayloadAnswer(Last(retry.outs))) =>
        /\ pc["rw"] = "resolved"
        /\ \A i \in 1..(Len(retry.outs) - 1) : IsRetryableAnswer(retry.outs[i])
        /\ retry.calls = Len(retry.outs)
        /\ retry.calls <= retryAttempts
        /\ retry.delays = LinearDelays(Len(retry.outs) - 1)
        /\ retry.waiting = 0
        /\ event.task = "rw" =>
              /\ event.kind = "resolved"
              /\ event.value = Last(retry.outs).body
              /\ event.error = NoError

C4_Witness ==
    /\ pc["rw"] = "resolved"
    /\ event.task = "rw"
    /\ Len(retry.outs) = 3
    /\ retry.outs[1].status = 500 /\ retry.outs[2].status = 500
    /\ retry.outs[3].status = 200
    /\ retry.delays = <<1000, 2000>>
    /\ event.value = ObjPlain

\* C8: a fetch in flight carries `Authorization: Bearer T` when a non-empty
\* token T was stored as request() issued it, and no Authorization header
\* when no token was stored then.  Stated for the calls whose caller passed
\* no Authorization header of its own.
C8_AuthorizationIffTokenStored ==
    \A t \in Tasks :
        (net[t] # NoReq /\ (t = "rw" => retry.given.headers.Authorization = Undefined)) =>
            /\ TruthyStr(net[t].stored) =>
                  net[t].headers.Authorization = "Bearer " \o net[t].stored
            /\ ~TruthyStr(net[t].stored) =>
                  net[t].headers.Authorization = Undefined

(***************************************************************************)
(* Properties of the auth sub-client and the callback handling (Spec)      *)
(***************************************************************************)
LogoutCalled(t) == pc[t] = "idle" /\ pc'[t] = "fetching"
LogoutSettled(t) == pc[t] = "fetching" /\ pc'[t] # "fetching"

\* C5: a logout() call removes the token and the profile and only then
\* issues POST /auth/logout (which is sent while no token is stored); the
\* completion of that POST, whatever its outcome, writes neither slot; and
\* with no profile or refresh call made, both slots are absent from the
\* logout call on.
C5_LogoutClearsBeforePost ==
    [][ /\ \A t \in LogoutTasks :
              /\ LogoutCalled(t) =>
                    /\ token' = Null
                    /\ userData' = NoItem
                    /\ net'[t].endpoint = "/auth/logout"
                    /\ net'[t].method = "POST"
                    /\ net'[t].stored = Null
              /\ LogoutSettled(t) =>
                    /\ token' = token
                    /\ userData' = userData
                    /\ net'[t] = NoReq
        /\ (pc'["lo"] # "idle" /\ pc'["gp"] = "idle" /\ pc'["rt"] = "idle") =>
              token' = Null /\ userData' = NoItem
      ]_vars

C5_Witness ==
    /\ pc["lo"] = "resolved"
    /\ event.task = "lo"
    /\ event.logs = <<"API Request Failed:", "Logout API error:">>
    /\ token = Null
    /\ userData = NoItem

\* C6: logout() never rejects: whatever the outcome of POST /auth/logout
\* (non-2xx, timeout, transport failure, unparsable body), the promise of
\* every logout call resolves.
C6_LogoutNeverRejects ==
    /\ \A t \in LogoutTasks : pc[t] # "rejected"
    /\ event.task \in LogoutTasks =>
          /\ event.kind \in {"issued", "resolved"}
          /\ event.error = NoError

C6_Witness ==
    /\ event.task \in LogoutTasks
    /\ event.kind = "resolved"
    /\ pc[event.task] = "resolved"
    /\ event.value = JUndef
    /\ event.logs = <<"Logout API error:">>

\* C7: when getProfile() rejects, for any failure of GET /auth/profile, the
\* token is absent in the state in which the caller observes the rejection:
\* isAuthenticated() is false there.
C7_ProfileFailureLogsOut ==
    (event.task = "gp" /\ event.kind = "rejected") =>
        /\ ~isAuthenticated(token)
        /\ token = Null

C7_Witness ==
    /\ event.task = "gp"
    /\ event.kind = "rejected"
    /\ page.branch = "token"
    /\ event.error.name = "TypeError"
    /\ ~isAuthenticated(token)

\* C9: a page loaded on the callback path with a non-empty token parameter t
\* stores t as the token and starts one GET /auth/profile in the same run;
\* no further profile fetch is started; and the page navigates to "/" in
\* exactly the step in which that profile fetch succeeds.
IsTokenCallback(url) == url.callback /\ url.tokenParam \notin {Null, ""}
C9_CallbackTokenFlow ==
    [][ IsTokenCallback(page.url) =>
          /\ page.pc = "loading" =>
                /\ page'.pc = "loaded"
                /\ token' = page.url.tokenParam
                /\ pc'["gp"] = "fetching"
                /\ net'["gp"].endpoint = "/auth/profile"
                /\ net'["gp"].method = "GET"
                /\ location' = "here"
          /\ (page.pc = "loaded" /\ net'["gp"] # net["gp"]) => net'["gp"] = NoReq
          /\ (location = "here" /\ location' = "/") <=>
                (pc["gp"] = "fetching" /\ pc'["gp"] = "resolved")
          /\ (pc["gp"] = "fetching" /\ pc'["gp"] = "rejected") => location' = "here"
      ]_vars

C9_Witness ==
    /\ IsTokenCallback(page.url)
    /\ location = "/"
    /\ pc["gp"] = "resolved"
    /\ token = "abc"
    /\ event.task = "gp"
    /\ event.value = ObjPlain

\* C10 as stated: after refreshToken() resolves with payload D the stored
\* token is D.token and isAuthenticated() is true; after getProfile()
\* resolves with payload P the stored profile is P.
C10_FetchesPersistPayload ==
    /\ (event.task = "rt" /\ event.kind = "resolved") =>
          /\ token = event.value.token
          /\ isAuthenticated(token)
    /\ (event.task = "gp" /\ event.kind = "resolved") =>
          /\ userData # NoItem
          /\ GetUserData(userData) = event.value

\* C10, amended: the payload is returned as fetched; the token is stored
\* when D.token is a non-empty string and the profile when P is an object;
\* otherwise the slot is removed.
C10_FetchesPersistTruthyPayload ==
    /\ (event.task = "rt" /\ event.kind = "resolved") =>
          /\ event.value \in Bodies \ {Invalid, JNull}
          /\ event.value.token \notin {Undefined, ""} =>
                /\ token = event.value.token
                /\ isAuthenticated(token)
          /\ event.value.token \in {Undefined, ""} =>
                /\ token = Null
                /\ ~isAuthenticated(token)
    /\ (event.task = "gp" /\ event.kind = "resolved") =>
          /\ event.value \in Bodies \ {Invalid}
          /\ event.value.type = "object" =>
                /\ userData = JSONstringify(event.value)
                /\ GetUserData(userData) = event.value
          /\ event.value.type # "object" => userData = NoItem

C10_Witness ==
    /\ event.task = "rt"
    /\ event.kind = "resolved"
    /\ event.value = ObjTok
    /\ token = "t2"

(***************************************************************************)
(* Failure shapes and the auth cascade                                     *)
(***************************************************************************)
\* The failure request number n of `task` must produce for a network outcome
\* that is no parsed 2xx payload, as sections 4.1 and 7 describe it.
ExpectedError(task, n, out) ==
    CASE out.kind = "neterr" -> FetchFailure(<<task, n>>, out)
      [] out.kind \in {"timeout", "abort"} ->
            [name |-> "APIError", message |-> "Request timeout", status |-> 408,
             data |-> EmptyObj, oid |-> <<"request", task, n>>]
      [] out.kind = "response" /\ ~ResponseOk(out.status) ->
            [name |-> "APIError", message |-> "API Error: " \o ToString(out.status),
             status |-> out.status,
             data |-> IF out.body = Invalid THEN EmptyObj ELSE out.body,
             oid |-> <<"request", task, n>>]
      [] OTHER ->
            [name |-> "SyntaxError", message |-> "Unexpected token", status |-> -1,
             data |-> JUndef, oid |-> <<"json", task, n>>]
RequestFailed(out) == out # NoOut /\ ~IsPayloadAnswer(out)
CascadeOf(task) == IF task = "gp" THEN "lo_gp" ELSE "lo_rt"

\* C11: whenever the request of getProfile() or refreshToken() fails, the
\* call rejects with the failure of that request itself; in the state in
\* which the caller sees the rejection the token and the profile are removed
\* and the triggered POST /auth/logout is in flight, not yet settled.
C11_AuthCascade ==
    (event.task \in {"gp", "rt"} /\ RequestFailed(event.out)) =>
        /\ event.kind = "rejected"
        /\ event.error = ExpectedError(event.task, 1, event.out)
        /\ event.error.oid[2] = event.task
        /\ token = Null
        /\ userData = NoItem
        /\ pc[CascadeOf(event.task)] = "fetching"
        /\ net[CascadeOf(event.task)].endpoint = "/auth/logout"
        /\ net[CascadeOf(event.task)].method = "POST"

C11_Witness ==
    /\ event.task = "rt"
    /\ event.kind = "rejected"
    /\ event.out = Response(401, ObjPlain)
    /\ event.error.status = 401
    /\ pc["lo_rt"] = "fetching"
    /\ pc["lo"] = "fetching"

\* C12: when the abort timer fires before the fetch completes, or the
\* transport reports a cancellation, request() fails with an APIError of
\* message "Request timeout", status 408 and data {}; the AbortError itself
\* never reaches the caller.
C12_CancellationIs408 ==
    (event.task \in {"gp", "rt"} /\ event.out.kind \in {"timeout", "abort"}) =>
        /\ event.kind = "rejected"
        /\ event.error.name = "APIError"
        /\ event.error.message = "Request timeout"
        /\ event.error.status = 408
        /\ event.error.data = EmptyObj

C12_Witness ==
    /\ event.task = "gp"
    /\ event.kind = "rejected"
    /\ event.out.kind = "abort"
    /\ event.error.status = 408

\* C13: for a response with a non-2xx status s, request() fails with an
\* APIError of status s and message "API Error: s" whose data is the parsed
\* body, or {} when the body is not JSON; the parse failure never takes the
\* place of the APIError.
C13_Non2xxIsAPIError ==
    (event.task = "rw" /\ event.out.kind = "response" /\ ~ResponseOk(event.out.status)) =>
        /\ event.kind \in {"retrying", "rejected"}
        /\ event.error.name = "APIError"
        /\ event.error.status = event.out.status
        /\ event.error.message = "API Error: " \o ToString(event.out.status)
        /\ event.out.body # Invalid => event.error.data = event.out.body
        /\ event.out.body = Invalid => event.error.data = EmptyObj

C13_Witness ==
    /\ event.task = "rw"
    /\ event.out = Response(500, Invalid)
    /\ event.error.name = "APIError"
    /\ event.error.message = "API Error: 500"
    /\ event.error.data = EmptyObj

(***************************************************************************)
(* Outgoing headers                                                        *)
(***************************************************************************)
\* C14: the headers of every fetch are the default Content-Type:
\* application/json merged with the caller's headers: each header the caller
\* supplied is sent with the caller's value, and Content-Type is
\* application/json whenever the caller supplied none of its own, also when
\* the caller supplied other headers.
C14_DefaultContentTypeMerged ==
    net["rw"] # NoReq =>
        /\ net["rw"].headers.XCustom = retry.given.headers.XCustom
        /\ retry.given.headers.ContentType # Undefined =>
              net["rw"].headers.ContentType = retry.given.headers.ContentType
        /\ retry.given.headers.ContentType = Undefined =>
              net["rw"].headers.ContentType = "application/json"

(***************************************************************************)
(* Ordering and outcome of the retries                                     *)
(***************************************************************************)
\* The step starts attempt n of the requestWithRetry call.
AttemptStarts(n) == net'["rw"] # NoReq /\ net'["rw"] # net["rw"] /\ net'["rw"].n = n

\* C15: the retries of one requestWithRetry call are strictly sequential: at
\* most one attempt is in flight at any time, and attempt N+1 starts only
\* from the state in which attempt N has been observed to fail and the timer
\* armed with baseDelay * N has fired.
C15_SequentialRetries ==
    /\ [](/\ retry.calls - Len(retry.outs) \in {0, 1}
          /\ (net["rw"] # NoReq) <=> (retry.calls = Len(retry.outs) + 1)
          /\ net["rw"] # NoReq => net["rw"].n = retry.calls)
    /\ [][\A n \in 1..retryAttempts :
            (AttemptStarts(n + 1) =>
                /\ net["rw"] = NoReq
                /\ pc["rw"] = "backoff"
                /\ Len(retry.outs) = n
                /\ RequestFailed(retry.outs[n])
                /\ retry.waiting = retryDelay * n
                /\ retry'.delays = LinearDelays(n))]_vars

C15_Witness ==
    /\ pc["rw"] = "fetching"
    /\ net["rw"].n = 3
    /\ Len(retry.outs) = 2
    /\ retry.delays = <<retryDelay, retryDelay * 2>>
    /\ event.kind = "issued"

\* C16: when requestWithRetry gives up, after maxRetries attempts or on a
\* failure that is not retryable, the caller receives exactly the error that
\* request() produced for the last attempt made: not the error of an earlier
\* attempt, not a new or wrapping error.
C16_LastErrorUnchanged ==
    (event.task = "rw" /\ event.kind = "rejected") =>
        /\ retry.calls = Len(retry.outs)
        /\ event.out = Last(retry.outs)
        /\ event.error = ExpectedError("rw", retry.calls, Last(retry.outs))
        /\ event.error.oid[3] = retry.calls

C16_Witness ==
    /\ event.task = "rw"
    /\ event.kind = "rejected"
    /\ retry.calls = 3
    /\ retry.outs[1].status = 500
    /\ retry.outs[2].status = 429
    /\ retry.outs[3].status = 599
    /\ event.error.status = 599
    /\ event.error.oid = <<"request", "rw", 3>>

(***************************************************************************)
(* The callback branches at page load                                      *)
(***************************************************************************)
\* What the step must do when the script treats the token parameter as
\* present iff hasToken and the error parameter as present iff hasError.
CallbackContract(hasToken, hasError) ==
    LET branch == IF ~page.url.callback THEN "none"
                  ELSE IF hasToken THEN "token"
                  ELSE IF hasError THEN "error" ELSE "none"
    IN  /\ page.pc = "loading" =>
              /\ page'.pc = "loaded"
              /\ branch = "token" =>
                    /\ token' = page.url.tokenParam
                    /\ pc'["gp"] = "fetching"
                    /\ net'["gp"].endpoint = "/auth/profile"
                    /\ ~page'.notified
                    /\ page'.navTimer = 0
              /\ branch = "error" =>
                    /\ page'.notified
                    /\ page'.navTimer = NavDelay
                    /\ token' = token
                    /\ pc'["gp"] = "idle"
                    /\ net'["gp"] = NoReq
              /\ branch = "none" =>
                    /\ ~page'.notified
                    /\ page'.navTimer = 0
                    /\ token' = token
                    /\ pc'["gp"] = "idle"
                    /\ net'["gp"] = NoReq
        /\ page.pc = "loaded" =>
              /\ page'.pc = "loaded"
              /\ page'.notified = page.notified
              /\ page'.navTimer \in {page.navTimer, 0}
              /\ page'.navTimer # page.navTimer => location' = "/"
              /\ branch # "token" => (location' = "/" => page.navTimer = NavDelay)

\* C17 as stated: on a callback path a token parameter that is present makes
\* only the token branch run, also beside an error parameter; otherwise an
\* error parameter that is present makes the page notify and navigate to "/"
\* after the 3-second delay, storing no token and issuing no profile
\* request; on any other path neither branch runs; no branch runs twice.
C17_BranchesByPresence ==
    [][CallbackContract(page.url.tokenParam # Null, page.url.errorParam # Null)]_vars

\* C17, amended: as above with "present" read as "present and non-empty": an
\* empty token parameter leaves the choice to the error parameter, and an
\* empty error parameter runs no branch.
C17_BranchesByNonEmptyParam ==
    [][CallbackContract(page.url.tokenParam \notin {Null, ""},
                        page.url.errorParam \notin {Null, ""})]_vars

C17_Witness ==
    /\ page.url.callback
    /\ page.url.tokenParam = ""
    /\ page.url.errorParam = "denied"
    /\ page.pc = "loaded"
    /\ page.notified
    /\ location = "/"
    /\ pc["gp"] = "idle"

(***************************************************************************)
(* Side effects of the request primitive                                   *)
(***************************************************************************)
\* C18: every failing request() logs a diagnostic entry before the failure
\* reaches its caller, whatever the kind of failure: a non-2xx status, the
\* client-side timeout (408), a transport failure, an unparsable 2xx body.
C18_EveryFailureLogged ==
    (event.task \in {"gp", "rt"} /\ RequestFailed(event.out)) =>
        \E i \in 1..Len(event.logs) : event.logs[i] = "API Request Failed:"

\* C19: request() and requestWithRetry() leave the stored session alone:
\* no step of a requestWithRetry call, whatever its attempts are answered
\* and however often it retries, changes the stored token or the stored
\* profile.
C19_RetryLeavesSession ==
    [][(event'.task = "rw" \/ pc'["rw"] # pc["rw"] \/ retry' # retry) =>
           (token' = token /\ userData' = userData)]_vars

C19_Witness ==
    /\ event.task = "rw"
    /\ event.kind = "rejected"
    /\ retry.calls = 2
    /\ retry.outs[1].status = 500
    /\ retry.outs[2].status = 401
    /\ token = "t1"
    /\ userData = JSONstringify(ObjPlain)

\* C20: the POST /auth/logout that logout() issues never carries an
\* Authorization header: request() reads the token slot after logout() has
\* emptied it, whoever called logout() and whatever else is under way.
C20_LogoutPostWithoutCredential ==
    \A t \in LogoutTasks :
        net[t] # NoReq =>
            /\ net[t].endpoint = "/auth/logout"
            /\ net[t].method = "POST"
            /\ net[t].stored = Null
            /\ net[t].headers.Authorization = Undefined

C20_Witness ==
    /\ page.branch = "token"
    /\ pc["lo_gp"] = "fetching"
    /\ net["lo_gp"].endpoint = "/auth/logout"
    /\ net["lo_gp"].headers.Authorization = Undefined
    /\ net["rt"].headers.Authorization = "Bearer abc"

(***************************************************************************)
(* Consistency of the stored session                                       *)
(***************************************************************************)
\* A stored profile implies a stored token.
SessionConsistent(tok, data) == data # NoItem => tok # Null
\* The step completes the fetch of task t.
FetchSettles(t) == net[t] # NoReq /\ net'[t] = NoReq

\* C21: under every interleaving of the callback handling, getProfile(),
\* refreshToken() and logout(), no step leaves the session with a profile
\* but no token, and once the session has been cleared the completion of a
\* fetch that was started with the cleared token writes neither the token
\* nor the profile back.
C21_SessionStaysConsistent ==
    [][/\ SessionConsistent(token, userData) => SessionConsistent(token', userData')
       /\ \A t \in {"gp", "rt"} :
            (/\ FetchSettles(t)
             /\ net[t].stored # Null
             /\ token = Null
             /\ userData = NoItem) =>
                (token' = Null /\ userData' = NoItem)]_vars

(***************************************************************************)
(* Properties of throttle and debounce                                     *)
(***************************************************************************)
\* The calls of a history that invoked func.
Invoking(calls) == {i \in 1..Len(calls) : calls[i].ran}

\* C22: for a wrapper made by throttle(func, limit) and any sequence of
\* calls: the first call invokes func at once; a call made less than `limit`
\* after a call that invoked func is dropped, and func is never invoked for
\* it later; so any two invocations of func are at least `limit` apart.
C22_ThrottleWindow ==
    LET calls == throttled.calls
        runs == throttled.runs
    IN  /\ Len(calls) >= 1 => calls[1].ran
        /\ \A i, j \in 1..Len(calls) :
              (j < i /\ calls[j].ran /\ calls[i].at - calls[j].at < throttled.limit) =>
                  ~calls[i].ran
        /\ Len(runs) = Cardinality(Invoking(calls))
        /\ \A k \in 1..Len(runs) :
              \E i \in Invoking(calls) :
                  calls[i].at = runs[k].at /\ calls[i].arg = runs[k].arg
        /\ \A k, l \in 1..Len(runs) :
              k < l => runs[l].at - runs[k].at >= throttled.limit

\* Call i is the last of its burst: no later call follows it within `wait`.
EndsBurst(calls, wait, i) ==
    i = Len(calls) \/ calls[i + 1].at - calls[i].at >= wait
BurstEnds(calls, wait) == {i \in 1..Len(calls) : EndsBurst(calls, wait, i)}

====
